---- MODULE Spec2Model ----
(***************************************************************************)
(* Model of the MindfulMate chat front-end (App component).                *)
(*                                                                         *)
(* The component's React state (messages, inputText, loadingState,         *)
(* analysisData, showAnalysis, isListening), its refs (baseTextRef,        *)
(* recognitionRef) and every running invocation of the two async handlers  *)
(* (handleSendMessage, handleAnalyze) are the state.  Every event the      *)
(* single-threaded scheduler can dispatch is one action: a user event, a   *)
(* recognizer event, or the resumption of a suspended handler at its       *)
(* await.  Texts are sequences of one-character strings.                   *)
(***************************************************************************)
EXTENDS Integers, Sequences, FiniteSets, TLC

VARIABLES
    messages,       \* useState<Message[]>            (line 10)
    inputText,      \* useState('')                   (line 11)
    loadingState,   \* useState<LoadingState>         (line 12)
    analysisData,   \* useState<AnalysisData | null>  (line 13)
    showAnalysis,   \* useState(false)                (line 14)
    isListening,    \* useState(false)                (line 15)
    recognitionRef, \* useRef<any>(null): TRUE when a recognizer was built
    baseTextRef,    \* useRef('')                     (line 20)
    recognizer,     \* the browser recognizer's own state
    clock,          \* the current reading of Date.now()
    sends,          \* one record per accepted handleSendMessage invocation
    analyses,       \* one record per accepted handleAnalyze invocation
    owner,          \* history: owner[p] is the send that appended messages[p]
    sentSinceStart  \* history: a submit was accepted while capture was
                    \* requested or running, and capture was not started since

vars == <<messages, inputText, loadingState, analysisData, showAnalysis,
          isListening, recognitionRef, baseTextRef, recognizer, clock,
          sends, analyses, owner, sentSinceStart>>

----------------------------------------------------------------------------
(* Bounds of the model *)

MaxSends == 2
MaxAnalyses == 1
MaxChunks == 2
MaxClock == 2
MaxDraftLen == 1
MaxVoiceSends == 1
MaxVoiceChunks == 0
MaxVoiceClock == 1
MaxVoiceDraftLen == 3
MaxVoiceAnalyses == 2
MaxSegments == 2

\* A run in a browser that offers a recognizer is explored over a shorter
\* conversation than a run in a browser that offers none.
SendLimit == IF recognitionRef THEN MaxVoiceSends ELSE MaxSends
ChunkLimit == IF recognitionRef THEN MaxVoiceChunks ELSE MaxChunks
ClockLimit == IF recognitionRef THEN MaxVoiceClock ELSE MaxClock
AnalysisLimit == IF recognitionRef THEN MaxVoiceAnalyses ELSE MaxAnalyses

----------------------------------------------------------------------------
(* Values *)

IDLE == "IDLE"
SENDING == "SENDING"
ANALYZING == "ANALYZING"
LoadingState == {IDLE, SENDING, ANALYZING}

\* 'init-1' is no decimal numeral, so it equals no Date.now().toString();
\* numeric ids are kept as the number they print, 'init-1' as 0 (clock >= 1).
InitId == 0
NoId == -1
NoData == 0

GreetingText == <<"g">>
ApologyText == <<"!">>

Chars == {"a", " "}
Chunks == {<<>>, <<"a">>, <<"b">>}
Segments == {<<"a">>, <<"b">>}

RECURSIVE SeqsUpTo(_, _)
SeqsUpTo(S, n) ==
    IF n = 0 THEN {<<>>}
    ELSE LET shorter == SeqsUpTo(S, n - 1)
         IN  shorter \cup {Append(s, c) : s \in shorter, c \in S}

Drafts == SeqsUpTo(Chars, MaxDraftLen)

\* event.results of one onresult event: the recognized segments so far
ResultLists == SeqsUpTo(Segments, MaxSegments)

----------------------------------------------------------------------------
(* String.prototype.trim and endsWith, on sequences of characters *)

RECURSIVE TrimStart(_)
TrimStart(s) ==
    IF s = <<>> THEN s
    ELSE IF Head(s) = " " THEN TrimStart(Tail(s)) ELSE s

RECURSIVE TrimEnd(_)
TrimEnd(s) ==
    IF s = <<>> THEN s
    ELSE IF s[Len(s)] = " " THEN TrimEnd(SubSeq(s, 1, Len(s) - 1)) ELSE s

Trim(s) == TrimEnd(TrimStart(s))

EndsWithSpace(s) == s # <<>> /\ s[Len(s)] = " "

----------------------------------------------------------------------------
(* Messages *)

GreetingMessage(t) ==
    [id |-> InitId, role |-> "model", text |-> GreetingText,
     timestamp |-> t, isError |-> FALSE]

UserMessage(t, userText) ==
    [id |-> t, role |-> "user", text |-> userText,
     timestamp |-> t, isError |-> FALSE]

ResponseId(t) == t + 1

PlaceholderMessage(t) ==
    [id |-> ResponseId(t), role |-> "model", text |-> <<>>,
     timestamp |-> t, isError |-> FALSE]

ApologyMessage_NoFlag(t) ==
    [id |-> t, role |-> "model", text |-> ApologyText,
     timestamp |-> t, isError |-> FALSE]

ApologyMessage(t) ==
    [id |-> t, role |-> "model", text |-> ApologyText,
     timestamp |-> t, isError |-> TRUE]

\* prev.map(msg => msg.id === responseId ? { ...msg, text } : msg)
SetTextById(prev, responseId, text) ==
    [p \in 1..Len(prev) |->
        IF prev[p].id = responseId THEN [prev[p] EXCEPT !.text = text]
        ELSE prev[p]]

----------------------------------------------------------------------------
(* The recognizer: start() and stop() take effect asynchronously, reported *)
(* by onstart and onend.                                                   *)

RecognizerStart(r) == IF r = "stopped" THEN "starting" ELSE r

RecognizerStop(r) == IF r \in {"starting", "capturing"} THEN "stopping" ELSE r

----------------------------------------------------------------------------
(* Handler invocations in progress *)

SendDone(s) == s.pc \in {"ended", "rejected", "raised"}

SendInProgress == \E i \in 1..Len(sends) : ~SendDone(sends[i])

AnalysisInProgress == \E j \in 1..Len(analyses) : analyses[j].pc = "call"

----------------------------------------------------------------------------
Init ==
    /\ clock = 1
    /\ messages = <<GreetingMessage(1)>>
    /\ owner = <<0>>
    /\ inputText = <<>>
    /\ loadingState = IDLE
    /\ analysisData = NoData
    /\ showAnalysis = FALSE
    /\ isListening = FALSE
    /\ recognitionRef \in BOOLEAN
    /\ baseTextRef = <<>>
    /\ recognizer = "stopped"
    /\ sends = <<>>
    /\ analyses = <<>>
    /\ sentSinceStart = FALSE

\* The state a handler reads and writes, as one record.
State ==
    [messages |-> messages, inputText |-> inputText,
     loadingState |-> loadingState, analysisData |-> analysisData,
     showAnalysis |-> showAnalysis, isListening |-> isListening,
     baseTextRef |-> baseTextRef, recognizer |-> recognizer,
     sends |-> sends, analyses |-> analyses, owner |-> owner,
     sentSinceStart |-> sentSinceStart]

Becomes(s) ==
    /\ messages' = s.messages
    /\ inputText' = s.inputText
    /\ loadingState' = s.loadingState
    /\ analysisData' = s.analysisData
    /\ showAnalysis' = s.showAnalysis
    /\ isListening' = s.isListening
    /\ baseTextRef' = s.baseTextRef
    /\ recognizer' = s.recognizer
    /\ sends' = s.sends
    /\ analyses' = s.analyses
    /\ owner' = s.owner
    /\ sentSinceStart' = s.sentSinceStart
    /\ UNCHANGED <<recognitionRef, clock>>

----------------------------------------------------------------------------
(* handleSendMessage, up to its first await *)

SendAccepted_AnyState == Trim(inputText) # <<>>

SendAccepted == Trim(inputText) # <<>> /\ loadingState = IDLE

NewSend(userText) ==
    [pc |-> "call", userText |-> userText, responseId |-> NoId,
     fullResponseText |-> <<>>, chunks |-> <<>>]

HandleSendMessage_WithPlaceholder ==
    IF ~SendAccepted THEN State
    ELSE [State EXCEPT
            !.recognizer = IF isListening /\ recognitionRef
                           THEN RecognizerStop(recognizer) ELSE recognizer,
            !.inputText = <<>>,
            !.messages = messages \o <<UserMessage(clock, Trim(inputText)),
                                       PlaceholderMessage(clock)>>,
            !.owner = owner \o <<Len(sends) + 1, Len(sends) + 1>>,
            !.loadingState = SENDING,
            !.sentSinceStart = sentSinceStart \/ recognizer # "stopped",
            !.sends = Append(sends, NewSend(Trim(inputText)))]

HandleSendMessage ==
    IF ~SendAccepted THEN State
    ELSE [State EXCEPT
            !.recognizer = IF isListening /\ recognitionRef
                           THEN RecognizerStop(recognizer) ELSE recognizer,
            !.inputText = <<>>,
            !.messages = Append(messages, UserMessage(clock, Trim(inputText))),
            !.owner = Append(owner, Len(sends) + 1),
            !.loadingState = SENDING,
            !.sentSinceStart = sentSinceStart \/ recognizer # "stopped",
            !.sends = Append(sends, NewSend(Trim(inputText)))]

Submit ==
    /\ SendAccepted => Len(sends) < SendLimit
    /\ Becomes(HandleSendMessage)

(* await chat.sendMessageStream(...) resolves: the placeholder is appended *)
SendResolve(i) ==
    /\ sends[i].pc = "call"
    /\ sends' = [sends EXCEPT ![i].pc = "stream",
                              ![i].responseId = ResponseId(clock)]
    /\ messages' = Append(messages, PlaceholderMessage(clock))
    /\ owner' = Append(owner, i)
    /\ UNCHANGED <<inputText, loadingState, analysisData, showAnalysis,
                   isListening, recognitionRef, sentSinceStart, baseTextRef, recognizer,
                   clock, analyses>>

SendFailed_Silent(i, how) ==
    /\ sends' = [sends EXCEPT ![i].pc = how]
    /\ loadingState' = IDLE
    /\ UNCHANGED <<messages, owner, inputText, analysisData, showAnalysis,
                   isListening, recognitionRef, sentSinceStart, baseTextRef, recognizer,
                   clock, analyses>>

(* catch + finally *)
SendFailed(i, how) ==
    /\ sends' = [sends EXCEPT ![i].pc = how]
    /\ messages' = Append(messages, ApologyMessage(clock))
    /\ owner' = Append(owner, i)
    /\ loadingState' = IDLE
    /\ UNCHANGED <<inputText, analysisData, showAnalysis, isListening,
                   recognitionRef, sentSinceStart, baseTextRef, recognizer, clock, analyses>>

(* getChatSession() throws or the awaited call rejects *)
SendReject(i) ==
    /\ sends[i].pc = "call"
    /\ SendFailed(i, "rejected")

(* one iteration of for await (const chunk of resultStream) *)
StreamChunk(i, textChunk) ==
    /\ sends[i].pc = "stream"
    /\ Len(sends[i].chunks) < ChunkLimit
    /\ LET full == sends[i].fullResponseText \o textChunk
       IN  /\ sends' = [sends EXCEPT
                          ![i].fullResponseText = full,
                          ![i].chunks = Append(@, textChunk)]
           /\ messages' = SetTextById(messages, sends[i].responseId, full)
    /\ UNCHANGED <<inputText, loadingState, analysisData, showAnalysis,
                   isListening, recognitionRef, sentSinceStart, baseTextRef, recognizer,
                   clock, analyses, owner>>

(* the sequence is exhausted: finally *)
StreamEnd(i) ==
    /\ sends[i].pc = "stream"
    /\ sends' = [sends EXCEPT ![i].pc = "ended"]
    /\ loadingState' = IDLE
    /\ UNCHANGED <<messages, inputText, analysisData, showAnalysis,
                   isListening, recognitionRef, sentSinceStart, baseTextRef, recognizer,
                   clock, analyses, owner>>

(* the sequence raises: catch + finally *)
StreamError(i) ==
    /\ sends[i].pc = "stream"
    /\ SendFailed(i, "raised")

----------------------------------------------------------------------------
(* handleAnalyze *)

AnalyzeAccepted_Always == TRUE

AnalyzeAccepted == ~(Len(messages) < 3)

ValidHistory_KeepsErrors(msgs) ==
    SelectSeq(msgs, LAMBDA m : Trim(m.text) # <<>>)

ValidHistory(msgs) ==
    SelectSeq(msgs, LAMBDA m : ~m.isError /\ Trim(m.text) # <<>>)

HandleAnalyze ==
    IF ~AnalyzeAccepted THEN State
    ELSE [State EXCEPT
            !.showAnalysis = TRUE,
            !.loadingState = ANALYZING,
            !.analyses = Append(analyses,
                [pc |-> "call", validHistory |-> ValidHistory(messages)])]

\* The Daily Insight button is disabled while ANALYZING (its other disabling
\* condition is the handler's own guard).
AnalyzeButtonEnabled == loadingState # ANALYZING

Analyze ==
    /\ AnalyzeButtonEnabled
    /\ AnalyzeAccepted => Len(analyses) < AnalysisLimit
    /\ Becomes(HandleAnalyze)

\* analyzeConversation (services/geminiService) resolves with an AnalysisData
\* object; the j-th request's object is kept as j.
AnalyzeConversationResult(j) == j

AnalysisComplete(j) ==
    /\ analyses[j].pc = "call"
    /\ analyses' = [analyses EXCEPT ![j] = [pc |-> "done", validHistory |-> <<>>]]
    /\ analysisData' = AnalyzeConversationResult(j)
    /\ loadingState' = IDLE
    /\ UNCHANGED <<messages, inputText, showAnalysis, isListening,
                   recognitionRef, sentSinceStart, baseTextRef, recognizer, clock, sends,
                   owner>>

AnalysisError_NoFinally(j) ==
    /\ analyses[j].pc = "call"
    /\ analyses' = [analyses EXCEPT ![j] = [pc |-> "failed", validHistory |-> <<>>]]
    /\ UNCHANGED <<messages, inputText, analysisData, showAnalysis, loadingState,
                   isListening, recognitionRef, sentSinceStart, baseTextRef, recognizer,
                   clock, sends, owner>>

(* catch + finally *)
AnalysisError(j) ==
    /\ analyses[j].pc = "call"
    /\ analyses' = [analyses EXCEPT ![j] = [pc |-> "failed", validHistory |-> <<>>]]
    /\ loadingState' = IDLE
    /\ UNCHANGED <<messages, inputText, analysisData, showAnalysis,
                   isListening, recognitionRef, sentSinceStart, baseTextRef, recognizer,
                   clock, sends, owner>>

CloseAnalysis ==
    /\ showAnalysis
    /\ showAnalysis' = FALSE
    /\ UNCHANGED <<messages, inputText, loadingState, analysisData,
                   isListening, recognitionRef, sentSinceStart, baseTextRef, recognizer,
                   clock, sends, analyses, owner>>

----------------------------------------------------------------------------
(* The composer and voice input *)

ChangeInput(text) ==
    /\ inputText' = text
    /\ UNCHANGED <<messages, loadingState, analysisData, showAnalysis,
                   isListening, recognitionRef, sentSinceStart, baseTextRef, recognizer,
                   clock, sends, analyses, owner>>

\* Without a recognizer the handler alerts and returns.
ToggleVoiceInput ==
    /\ IF ~recognitionRef
       THEN UNCHANGED <<baseTextRef, recognizer, sentSinceStart>>
       ELSE IF isListening
       THEN /\ recognizer' = RecognizerStop(recognizer)
            /\ UNCHANGED <<baseTextRef, sentSinceStart>>
       ELSE /\ baseTextRef' = inputText
            /\ recognizer' = RecognizerStart(recognizer)
            /\ sentSinceStart' = FALSE
    /\ UNCHANGED <<messages, inputText, loadingState, analysisData,
                   showAnalysis, isListening, recognitionRef, clock, sends,
                   analyses, owner>>

OnStart ==
    /\ recognizer = "starting"
    /\ recognizer' = "capturing"
    /\ isListening' = TRUE
    /\ UNCHANGED <<messages, inputText, loadingState, analysisData,
                   showAnalysis, recognitionRef, sentSinceStart, baseTextRef, clock, sends,
                   analyses, owner>>

OnEnd ==
    /\ recognizer \in {"capturing", "stopping"}
    /\ recognizer' = "stopped"
    /\ isListening' = FALSE
    /\ UNCHANGED <<messages, inputText, loadingState, analysisData,
                   showAnalysis, recognitionRef, sentSinceStart, baseTextRef, clock, sends,
                   analyses, owner>>

Separator_Always(base) == <<" ">>

Separator(base) == IF base # <<>> /\ ~EndsWithSpace(base) THEN <<" ">> ELSE <<>>

ResultText(base, transcript) == base \o Separator(base) \o transcript

\* for (i = 0; i < event.results.length; ++i) transcript += ...
RECURSIVE Transcript(_)
Transcript(results) ==
    IF results = <<>> THEN <<>>
    ELSE Transcript(SubSeq(results, 1, Len(results) - 1)) \o results[Len(results)]

OnResultText(results) == ResultText(baseTextRef, Transcript(results))

OnResult(results) ==
    /\ recognizer \in {"capturing", "stopping"}
    /\ Len(OnResultText(results)) <= MaxVoiceDraftLen
    /\ inputText' = OnResultText(results)
    /\ UNCHANGED <<messages, loadingState, analysisData, showAnalysis,
                   isListening, recognitionRef, sentSinceStart, baseTextRef, recognizer,
                   clock, sends, analyses, owner>>

Tick ==
    /\ clock < ClockLimit
    /\ clock' = clock + 1
    /\ UNCHANGED <<messages, inputText, loadingState, analysisData,
                   showAnalysis, isListening, recognitionRef, sentSinceStart, baseTextRef,
                   recognizer, sends, analyses, owner>>

----------------------------------------------------------------------------
Next ==
    \/ Submit
    \/ \E i \in 1..Len(sends) : SendResolve(i)
    \/ \E i \in 1..Len(sends) : SendReject(i)
    \/ \E i \in 1..Len(sends), c \in Chunks : StreamChunk(i, c)
    \/ \E i \in 1..Len(sends) : StreamEnd(i)
    \/ \E i \in 1..Len(sends) : StreamError(i)
    \/ Analyze
    \/ \E j \in 1..Len(analyses) : AnalysisComplete(j)
    \/ \E j \in 1..Len(analyses) : AnalysisError(j)
    \/ CloseAnalysis
    \/ \E text \in Drafts : ChangeInput(text)
    \/ ToggleVoiceInput
    \/ OnStart
    \/ OnEnd
    \/ \E results \in ResultLists : OnResult(results)
    \/ Tick

Spec == Init /\ [][Next]_vars

----------------------------------------------------------------------------
(* The same program in a browser without a recognizer, with every gateway  *)
(* call eventually resolving or rejecting and every stream eventually      *)
(* ending or raising.                                                      *)

InitNoRecognizer == Init /\ ~recognitionRef

NextNoRecognizer ==
    \/ Submit
    \/ \E i \in 1..Len(sends) : SendResolve(i)
    \/ \E i \in 1..Len(sends) : SendReject(i)
    \/ \E i \in 1..Len(sends), c \in Chunks : StreamChunk(i, c)
    \/ \E i \in 1..Len(sends) : StreamEnd(i)
    \/ \E i \in 1..Len(sends) : StreamError(i)
    \/ Analyze
    \/ \E j \in 1..Len(analyses) : AnalysisComplete(j)
    \/ \E j \in 1..Len(analyses) : AnalysisError(j)
    \/ CloseAnalysis
    \/ \E text \in Drafts : ChangeInput(text)
    \/ Tick

SendCallSettles(i) == i <= Len(sends) /\ (SendResolve(i) \/ SendReject(i))

StreamSettles(i) == i <= Len(sends) /\ (StreamEnd(i) \/ StreamError(i))

AnalysisSettles(j) ==
    j <= Len(analyses) /\ (AnalysisComplete(j) \/ AnalysisError(j))

GatewayFairness ==
    /\ \A i \in 1..MaxSends : WF_vars(SendCallSettles(i))
    /\ \A i \in 1..MaxSends : WF_vars(StreamSettles(i))
    /\ \A j \in 1..MaxAnalyses : WF_vars(AnalysisSettles(j))

LiveSpec == InitNoRecognizer /\ [][NextNoRecognizer]_vars /\ GatewayFairness

----------------------------------------------------------------------------
(* Properties *)

RECURSIVE Concat(_)
Concat(chunks) ==
    IF chunks = <<>> THEN <<>> ELSE Head(chunks) \o Concat(Tail(chunks))

Positions == 1..Len(messages)
SendIds == 1..Len(sends)

\* positions of the model messages that send i appended
OwnedModelIn(msgs, own, i) ==
    {p \in 1..Len(msgs) : own[p] = i /\ msgs[p].role = "model"}

OwnedModel(i) == OwnedModelIn(messages, owner, i)

UserPos(i) == CHOOSE p \in Positions : owner[p] = i /\ messages[p].role = "user"

UserMessages == SelectSeq(messages, LAMBDA m : m.role = "user")

\* C1: a send and an analysis are never in progress at the same time
\* (analyze() during a send starts no analysis request).
C1_SendExcludesAnalysis == ~(SendInProgress /\ AnalysisInProgress)

\* C2: at most one send (gateway call pending or stream being consumed) is
\* in flight in any reachable state.
C2_AtMostOneStream ==
    Cardinality({i \in SendIds : ~SendDone(sends[i])}) <= 1

\* C3: handleSendMessage invoked with a blank draft, or while loadingState is
\* not IDLE, leaves the messages, the draft, loadingState, analysisData, the
\* overlay, isListening, the recognizer and the gateway calls as they were.
C3_RejectedSubmitIsNoOp ==
    (Trim(inputText) = <<>> \/ loadingState # IDLE) => HandleSendMessage = State

C3_Witness ==
    /\ loadingState # IDLE
    /\ Trim(inputText) # <<>>
    /\ isListening
    /\ recognizer = "capturing"

\* C4 as stated: once every started send has finished, each accepted
\* submission has exactly one model message, after its user message and
\* before the next user message.
C4_OneModelMessagePerSubmit ==
    ~SendInProgress =>
        \A i \in SendIds :
            /\ Cardinality(OwnedModel(i)) = 1
            /\ \A p \in OwnedModel(i) :
                /\ UserPos(i) < p
                /\ i < Len(sends) => p < UserPos(i + 1)

\* C4 as amended: once every started send has finished, each accepted
\* submission has exactly one model message when its stream ended or its
\* gateway call rejected, and exactly two (the placeholder, then the apology)
\* when its stream raised; all of them follow the submission's user message.
C4_ModelMessagesPerSubmit ==
    ~SendInProgress =>
        \A i \in SendIds :
            /\ Cardinality(OwnedModel(i)) =
                  (IF sends[i].pc = "raised" THEN 2 ELSE 1)
            /\ \A p \in OwnedModel(i) : UserPos(i) < p
            /\ sends[i].pc = "ended" =>
                  \A p \in OwnedModel(i) : ~messages[p].isError
            /\ sends[i].pc = "rejected" =>
                  \A p \in OwnedModel(i) : messages[p].isError
            /\ sends[i].pc = "raised" =>
                  \E p, q \in OwnedModel(i) :
                      p < q /\ ~messages[p].isError /\ messages[q].isError

C4_Witness ==
    /\ ~SendInProgress
    /\ \E i, j \in SendIds : sends[i].pc = "raised" /\ sends[j].pc = "ended"

\* C5: the user-role messages are the accepted submissions in order, one per
\* submit, each with the text that was submitted.
C5_UserMessagesInOrder ==
    /\ Len(UserMessages) = Len(sends)
    /\ \A k \in SendIds : UserMessages[k].text = sends[k].userText

\* C6: while a reply stream is consumed, the text of its message is the
\* concatenation, in order, of the chunks received so far.
C6_TextIsConcatenation ==
    \A i \in SendIds :
        sends[i].pc = "stream" =>
            \A p \in OwnedModel(i) : messages[p].text = Concat(sends[i].chunks)

\* C7: while a send has been started and its stream has neither ended nor
\* failed, loadingState is SENDING.
C7_SendingUntilStreamEnds == SendInProgress => loadingState = SENDING

\* C8 as stated: a send that failed before any chunk was yielded has exactly
\* one message besides the user's: the apology, flagged isError.
C8_OneMessageAfterEarlyFailure ==
    \A i \in SendIds :
        (sends[i].pc \in {"rejected", "raised"} /\ sends[i].chunks = <<>>) =>
            /\ Cardinality(OwnedModel(i)) = 1
            /\ \A p \in OwnedModel(i) :
                  messages[p].isError /\ messages[p].text = ApologyText

\* C8 as amended: when a send fails before any chunk was yielded, the apology
\* (role model, isError, the fixed text) is appended and loadingState becomes
\* IDLE; it is the send's only message besides the user's when the gateway
\* call rejected, and its second, after the unflagged placeholder, when the
\* sequence raised on its first read.
C8_EarlyFailure ==
    [][\A i \in SendIds :
          (/\ ~SendDone(sends[i])
           /\ sends'[i].pc \in {"rejected", "raised"}
           /\ sends[i].chunks = <<>>)
          => /\ loadingState' = IDLE
             /\ Len(messages') = Len(messages) + 1
             /\ SubSeq(messages', 1, Len(messages)) = messages
             /\ owner'[Len(messages')] = i
             /\ messages'[Len(messages')].role = "model"
             /\ messages'[Len(messages')].isError
             /\ messages'[Len(messages')].text = ApologyText
             /\ Cardinality(OwnedModelIn(messages', owner', i)) =
                   (IF sends[i].pc = "call" THEN 1 ELSE 2)
             /\ \A p \in OwnedModel(i) : ~messages[p].isError
      ]_vars

C8_Witness ==
    \E i \in SendIds : sends[i].pc = "raised" /\ sends[i].chunks = <<>>

\* C9: every step keeps the existing messages in place and unchanged, except
\* that the text of the message of a send whose stream yields a chunk in that
\* step may change.
C9_MessagesOnlyGrow ==
    [][/\ Len(messages') >= Len(messages)
       /\ \A p \in Positions :
            \/ messages'[p] = messages[p]
            \/ /\ messages'[p] = [messages[p] EXCEPT !.text = messages'[p].text]
               /\ messages[p].role = "model"
               /\ \E i \in SendIds :
                    /\ owner[p] = i
                    /\ sends[i].pc = "stream"
                    /\ sends'[i].chunks # sends[i].chunks
      ]_vars

\* C10: no two messages of the conversation share an id.
C10_UniqueIds ==
    \A p, q \in Positions : p # q => messages[p].id # messages[q].id

AnalysisIds == 1..Len(analyses)

\* C11: handleAnalyze invoked with fewer than 3 messages leaves loadingState,
\* the overlay, analysisData, the messages and the analysis requests as they
\* were; accepted in IDLE with at least 3 messages it sets ANALYZING and
\* opens the overlay, and the request's completion or failure sets IDLE.
C11_AnalyzeGuardAndCycle ==
    [][/\ Len(messages) < 3 => HandleAnalyze = State
       /\ (Len(analyses') = Len(analyses) + 1 /\ loadingState = IDLE) =>
            /\ Len(messages) >= 3
            /\ loadingState' = ANALYZING
            /\ showAnalysis'
       /\ \A j \in AnalysisIds :
            (analyses[j].pc = "call" /\ analyses'[j].pc # "call") =>
                loadingState' = IDLE
      ]_vars

C11_Witness ==
    /\ loadingState = IDLE
    /\ ~SendInProgress
    /\ \E j \in AnalysisIds : analyses[j].pc \in {"done", "failed"}

NonBlank(text) == \E k \in 1..Len(text) : text[k] # " "

\* h holds exactly the messages of msgs that are no error message and have
\* a non-blank text, in the order of msgs
ExactFilter(h, msgs) ==
    LET keep == {p \in 1..Len(msgs) : ~msgs[p].isError /\ NonBlank(msgs[p].text)}
    IN  /\ Len(h) = Cardinality(keep)
        /\ \A p \in keep : h[Cardinality({q \in keep : q <= p})] = msgs[p]

\* C12: the history handed to analyzeConversation is exactly the messages, in
\* conversation order, that are not flagged isError and whose text is not
\* blank; when the request succeeds analysisData becomes the returned,
\* non-null data.
C12_HistoryIsFilteredConversation ==
    [][/\ Len(analyses') = Len(analyses) + 1 =>
            ExactFilter(analyses'[Len(analyses')].validHistory, messages)
       /\ \A j \in AnalysisIds :
            (analyses[j].pc = "call" /\ analyses'[j].pc = "done") =>
                /\ analysisData' # NoData
                /\ analysisData' = AnalyzeConversationResult(j)
      ]_vars

C12_Witness ==
    /\ Len(sends) = 1
    /\ sends[1].pc = "rejected"
    /\ \E j \in AnalysisIds :
         /\ analyses[j].pc = "call"
         /\ Len(analyses[j].validHistory) = Len(messages) - 1

\* C13: when an analysis request fails, loadingState becomes IDLE, an open
\* overlay stays open, no message is added and analysisData is unset.
C13_FailureLeavesNoData ==
    [][\A j \in AnalysisIds :
          (analyses[j].pc = "call" /\ analyses'[j].pc = "failed") =>
              /\ loadingState' = IDLE
              /\ showAnalysis => showAnalysis'
              /\ messages' = messages
              /\ analysisData' = NoData
      ]_vars

\* C14: an accepted submit made while capture is requested or running clears
\* the draft, and afterwards no transcript event writes the draft until the
\* user starts capture again.
C14_NoTranscriptAfterSend ==
    [][/\ (Len(sends') = Len(sends) + 1 /\ recognizer # "stopped") =>
            inputText' = <<>>
       /\ sentSinceStart =>
            ~(/\ inputText' # inputText
              /\ recognizer \in {"capturing", "stopping"}
              /\ \E results \in ResultLists : inputText' = OnResultText(results))
      ]_vars

\* baseline, then one space exactly when the baseline is non-empty and does
\* not end in a space, then the segments in order
ExpectedDraft(base, results) ==
    base
    \o (IF Len(base) > 0 /\ base[Len(base)] # " " THEN <<" ">> ELSE <<>>)
    \o Concat(results)

\* the recomputation is the expected draft for every event, given baseline
RecomputesFrom(base) ==
    \A results \in ResultLists :
        ResultText(base, Transcript(results)) = ExpectedDraft(base, results)

Quiescent == loadingState = IDLE /\ ~SendInProgress /\ ~AnalysisInProgress

C17_PartialReplyKept ==
    [][\A i \in 1..Len(sends') :
          (sends'[i].pc = "raised" /\ Len(sends'[i].chunks) >= 1) =>
              /\ sends[i].pc = "stream" => loadingState' = IDLE
              /\ \E p, q \in 1..Len(messages') :
                    /\ p < q
                    /\ owner'[p] = i /\ owner'[q] = i
                    /\ messages'[p].role = "model" /\ ~messages'[p].isError
                    /\ messages'[p].text = Concat(sends'[i].chunks)
                    /\ messages'[q].role = "model" /\ messages'[q].isError
                    /\ messages'[q].text = ApologyText
      ]_vars

\* C18 as stated: in every state where a send is in progress, the gateway
\* call still pending included, the conversation contains that send's
\* empty-text placeholder directly after its user message.
C18_PlaceholderFromSubmit ==
    \A i \in SendIds :
        ~SendDone(sends[i]) =>
            \E p \in Positions :
                /\ owner[p] = i /\ messages[p].role = "user"
                /\ p + 1 \in Positions
                /\ owner[p + 1] = i /\ messages[p + 1].role = "model"

\* C18 as amended: an accepted submit appends the finalized user message,
\* clears the draft and sets loadingState to SENDING; while the gateway call
\* is pending the send has no model message; the empty-text, unflagged
\* placeholder is appended at the end of the conversation by the step in
\* which the call resolves.
C18_PlaceholderWhenCallResolves ==
    [][/\ Len(sends') = Len(sends) + 1 =>
            /\ Len(messages') = Len(messages) + 1
            /\ SubSeq(messages', 1, Len(messages)) = messages
            /\ messages'[Len(messages')].role = "user"
            /\ messages'[Len(messages')].text = Trim(inputText)
            /\ owner'[Len(messages')] = Len(sends')
            /\ inputText' = <<>>
            /\ loadingState' = SENDING
       /\ \A i \in 1..Len(sends') :
            sends'[i].pc = "call" => OwnedModelIn(messages', owner', i) = {}
       /\ \A i \in 1..Len(sends') :
            sends'[i].pc = "rejected" =>
                \A p \in OwnedModelIn(messages', owner', i) : messages'[p].isError
       /\ \A i \in SendIds :
            (sends[i].pc = "call" /\ sends'[i].pc = "stream") =>
                /\ Len(messages') = Len(messages) + 1
                /\ SubSeq(messages', 1, Len(messages)) = messages
                /\ owner'[Len(messages')] = i
                /\ messages'[Len(messages')].role = "model"
                /\ messages'[Len(messages')].text = <<>>
                /\ ~messages'[Len(messages')].isError
                /\ OwnedModelIn(messages', owner', i) = {Len(messages')}
      ]_vars

C18_Witness ==
    /\ loadingState = SENDING
    /\ inputText = <<>>
    /\ messages[Len(messages)].role = "user"
    /\ \E i \in SendIds : sends[i].pc = "call" /\ owner[Len(messages)] = i
    /\ \E i \in SendIds : sends[i].pc = "stream"

\* C19: the isListening flag tested by toggleVoiceInput agrees with the
\* recognizer: whenever the flag is false the recognizer is stopped (so
\* start() is called only on a stopped recognizer) and whenever it is true
\* the recognizer is capturing (so stop() is called only while capturing).
C19_ListeningAgreesWithRecognizer ==
    recognitionRef =>
        /\ ~isListening => recognizer = "stopped"
        /\ isListening => recognizer = "capturing"

====
